---- MODULE Spec2Model ----
(***************************************************************************)
(* A model of busybox acpid (util-linux/acpid.c): the two rule tables, the *)
(* loaders that fill them, the probing of the event sources, the two-stage *)
(* matcher find_action, the dispatcher process_event and the poll loop of  *)
(* acpid_main.                                                             *)
(*                                                                         *)
(* A C string is a sequence of one-character strings; a NULL pointer is    *)
(* the value NULL, which is no C string.                                   *)
(***************************************************************************)
EXTENDS Integers, Sequences, FiniteSets, TLC

VARIABLES
    opts,       \* option_mask32: [e |-> -e given, d |-> -d given]
    pc,         \* position of acpid_main
    cwd,        \* the working directory: where the process started, or opt_dir
    act_tab,    \* G.act_tab
    n_act,      \* G.n_act
    evt_tab,    \* G.evt_tab
    n_evt,      \* G.n_evt
    pfd,        \* struct pollfd *pfd: sequence of [fd, events, revents]
    nfd,        \* int nfd
    i,          \* the index of the for loop inside the poll loop (0-based)
    fds,        \* the descriptors the process holds open
    tried,      \* the paths handed to open() while probing, with the outcome
    opened,     \* whether each config file could be opened
    sigchld,    \* disposition of SIGCHLD
    pidfile,    \* whether the pid marker exists
    exitcode,   \* exit status, -1 while the process runs
    last,       \* what the latest iteration of the for loop did
    calls,      \* the process_event calls of the current wakeup, in order
    running,    \* the number of spawned handlers that have not terminated
    zombies     \* the number of terminated handlers nobody has reaped

vars == <<opts, pc, cwd, act_tab, n_act, evt_tab, n_evt, pfd, nfd, i, fds, tried,
          opened, sigchld, pidfile, exitcode, last, calls, running, zombies>>

\* The most descriptors the process may hold open for event sources
\* (the descriptor limit of the process, which makes open() fail).
MaxFd == 2

\* The most handlers running at a time.
MaxChildren == 2

NULL == <<"NULL">>

Min(S) == CHOOSE x \in S : \A y \in S : x <= y
Max(S) == CHOOSE x \in S : \A y \in S : x >= y

(***************************************************************************)
(* The strings of the source and of the inputs.                            *)
(***************************************************************************)
s_button_power_PWRF ==
    <<"b","u","t","t","o","n","/","p","o","w","e","r"," ","P","W","R","F",
      " ","0","0","0","0","0","0","8","0">>
s_button_power_PWRB ==
    <<"b","u","t","t","o","n","/","p","o","w","e","r"," ","P","W","R","B",
      " ","0","0","0","0","0","0","8","0">>
s_PWRF == <<"P","W","R","F">>
s_PWRF_00000080 == <<"P","W","R","F","/","0","0","0","0","0","0","8","0">>
s_LID0 == <<"L","I","D","0">>
s_LID_00000080 == <<"L","I","D","/","0","0","0","0","0","0","8","0">>
s_PWR == <<"P","W","R">>
s_lid_LID0 == <<"l","i","d"," ","L","I","D","0">>
s_sbin_poweroff == <<"/","s","b","i","n","/","p","o","w","e","r","o","f","f">>
s_rep == <<"r","e","p">>
s_seq == <<" ","0","0","0","0","0","0","0","0">>
s_button == <<"b","u","t","t","o","n">>
s_ac == <<"a","c">>
s_dot_slash == <<".","/">>
s_run_parts == <<"r","u","n","-","p","a","r","t","s">>

(***************************************************************************)
(* The built-in tables.                                                    *)
(***************************************************************************)
f_evt_tab_swapped ==
    << [s_type |-> "EV_KEY", n_type |-> 1, s_code |-> "KEY_POWER",
        n_code |-> 116, value |-> 1, desc |-> s_button_power_PWRB],
       [s_type |-> "EV_KEY", n_type |-> 1, s_code |-> "KEY_POWER",
        n_code |-> 116, value |-> 1, desc |-> s_button_power_PWRF] >>

f_evt_tab ==
    << [s_type |-> "EV_KEY", n_type |-> 1, s_code |-> "KEY_POWER",
        n_code |-> 116, value |-> 1, desc |-> s_button_power_PWRF],
       [s_type |-> "EV_KEY", n_type |-> 1, s_code |-> "KEY_POWER",
        n_code |-> 116, value |-> 1, desc |-> s_button_power_PWRB] >>

f_act_tab_swapped ==
    << [key |-> s_LID0, action |-> s_LID_00000080],
       [key |-> s_PWRF, action |-> s_PWRF_00000080] >>

f_act_tab ==
    << [key |-> s_PWRF, action |-> s_PWRF_00000080],
       [key |-> s_LID0, action |-> s_LID_00000080] >>

ARRAY_SIZE(tab) == Len(tab)

(***************************************************************************)
(* The inputs.  A config file is either absent (NOFILE: config_open2       *)
(* returns NULL) or opens and holds the token vectors that config_read     *)
(* yields for it, one per line that has the required number of tokens.     *)
(***************************************************************************)
NOFILE == [opens |-> FALSE, records |-> << >>]
File(records) == [opens |-> TRUE, records |-> records]

ActionFiles ==
    { NOFILE,
      File(<< >>),
      File(<< <<s_PWR, s_sbin_poweroff>>, <<s_PWRF, s_PWRF_00000080>> >>) }

row_lid      == <<"EV_SW",  <<"0","5">>, "SW_LID", <<"0">>, <<"1">>, s_lid_LID0>>
row_rep      == <<"EV_KEY", <<"0","x","0","1">>, "KEY_POWER", <<"1","1","6">>, <<"2">>, s_rep>>
row_wide     == <<"EV_KEY", <<"1","0","0","0","1">>, "KEY_POWER", <<"1","1","6">>, <<"0">>, s_button_power_PWRB>>
row_lid_dup  == <<"EV_SW",  <<"5">>, "SW_LID", <<"0">>, <<"1">>, s_button_power_PWRF>>
row_bad_code == <<"EV_KEY", <<"0","1">>, "KEY_POWER", <<"1","x","6">>, <<"1">>, s_rep>>
row_big_code == <<"EV_KEY", <<"0","1">>, "KEY_POWER", <<"7","0","0","0","0">>, <<"1">>, s_rep>>

MapFiles ==
    { NOFILE,
      File(<< >>),
      File(<< row_lid, row_rep, row_wide, row_lid_dup >>),
      File(<< row_lid, row_bad_code >>),
      File(<< row_big_code >>) }

\* struct input_event records a binary source may deliver
Events ==
    { [type |-> tc[1], code |-> tc[2], value |-> v] :
        tc \in {<<1, 116>>, <<5, 0>>, <<5, 116>>}, v \in {0, 1, 2} }
NOEVENT == [type |-> -1, code |-> -1, value |-> -1]

\* lines the textual source may deliver (xmalloc_reads drops the newline)
Lines ==
    { s_button_power_PWRB \o s_seq,
      s_button_power_PWRF \o s_seq,
      s_button \o s_seq,
      s_lid_LID0 \o s_seq,
      s_ac \o s_seq,
      s_seq,
      s_button,
      << >> }

\* what stat() may find at a path: nothing, or a file of some type
ENOENT == "ENOENT"
FileTypes == {"dir", "reg", "blk", "chr", "fifo", "sock"}

(***************************************************************************)
(* libc and libbb helpers.                                                 *)
(***************************************************************************)
strlen(s) == Len(s)

NUL == "NUL"
CharAt(s, k) == IF k <= Len(s) THEN s[k] ELSE NUL

\* strncmp(a, b, n) == 0
strncmp_eq(a, b, n) ==
    \A k \in 1..n :
        (\A j \in 1..(k-1) : CharAt(a, j) # NUL) => CharAt(a, k) = CharAt(b, k)

\* strstr(haystack, needle) != NULL
strstr(haystack, needle) ==
    \E o \in 0..(Len(haystack) - Len(needle)) :
        SubSeq(haystack, o + 1, o + Len(needle)) = needle

HexDigits == <<"0","1","2","3","4","5","6","7","8","9","a","b","c","d","e","f">>
DigitVal(c) ==
    IF \E k \in 1..16 : HexDigits[k] = c
    THEN (CHOOSE k \in 1..16 : HexDigits[k] = c) - 1
    ELSE 99

RECURSIVE DigitsValue(_, _)
DigitsValue(tok, base) ==
    IF tok = << >> THEN 0
    ELSE DigitsValue(SubSeq(tok, 1, Len(tok) - 1), base) * base
         + DigitVal(tok[Len(tok)])

BAD == -1
\* bb_strtou and friends: the value of the token, or BAD when it is no number
bb_strtou(tok, base) ==
    LET body == IF base = 16 /\ Len(tok) > 2 /\ SubSeq(tok, 1, 2) = <<"0","x">>
                THEN SubSeq(tok, 3, Len(tok)) ELSE tok
    IN IF body = << >> \/ \E k \in 1..Len(body) : DigitVal(body[k]) >= base
       THEN BAD
       ELSE DigitsValue(body, base)

\* xstrtou(tok, 16): dies on a malformed token
xstrtou(tok, base) == bb_strtou(tok, base)
\* xatou16(tok): dies on a malformed token or a value above 65535
xatou16(tok) ==
    LET v == bb_strtou(tok, 10) IN IF v > 65535 THEN BAD ELSE v
\* xatoi_positive(tok): dies on a malformed token or a value outside 0..INT_MAX
xatoi_positive(tok) == bb_strtou(tok, 10)

\* conversion to uint16_t
U16(n) == n % 65536

(***************************************************************************)
(* find_action.                                                            *)
(***************************************************************************)
\* the test of line 129 without the comparison of the values
EvMatch_no_value(ev, row) ==
    ev.type = row.n_type /\ ev.code = row.n_code

\* line 129: the event equals the row's triple
EvMatch(ev, row) ==
    ev.type = row.n_type /\ ev.code = row.n_code /\ ev.value = row.value

\* line 136: the row's description begins with buf
\* variant: the line must equal the description (no prefix comparison)
BufMatch_exact(buf, row) == buf = row.desc

BufMatch(buf, row) == strncmp_eq(buf, row.desc, strlen(buf))

RowMatches(ev, buf, row) ==
    \/ ev # NOEVENT /\ EvMatch(ev, row)
    \/ buf # NULL /\ BufMatch(buf, row)

\* the first loop, were it to keep the last matching row
MapEvent_last(ev, buf) ==
    LET hits == {k \in 1..n_evt : RowMatches(ev, buf, evt_tab[k])}
    IN IF hits = {} THEN NULL ELSE evt_tab[Max(hits)].desc

\* lines 127-141: the description of the first matching row, or NULL
MapEvent(ev, buf) ==
    LET hits == {k \in 1..n_evt : RowMatches(ev, buf, evt_tab[k])}
    IN IF hits = {} THEN NULL ELSE evt_tab[Min(hits)].desc

\* the second loop, were it to drop a description no key occurs in
GetAction_drop(action) ==
    IF action = NULL THEN NULL
    ELSE LET hits == {k \in 1..n_act : strstr(action, act_tab[k].key)}
         IN IF hits = {} THEN NULL ELSE act_tab[Min(hits)].action

\* lines 144-151: the action of the first row whose key occurs in the
\* description, or the description itself
GetAction(action) ==
    IF action = NULL THEN NULL
    ELSE LET hits == {k \in 1..n_act : strstr(action, act_tab[k].key)}
         IN IF hits = {} THEN action ELSE act_tab[Min(hits)].action

find_action(ev, buf) == GetAction(MapEvent(ev, buf))

(***************************************************************************)
(* process_event.                                                          *)
(***************************************************************************)
S_IFDIR == 16384    \* 0040000

\* st_mode of a file of each type: its S_IFMT bits and permissions 0755
st_mode_of ==
    [ fifo |-> 4096 + 493,      \* S_IFIFO  0010000
      chr  |-> 8192 + 493,      \* S_IFCHR  0020000
      dir  |-> 16384 + 493,     \* S_IFDIR  0040000
      blk  |-> 24576 + 493,     \* S_IFBLK  0060000
      reg  |-> 32768 + 493,     \* S_IFREG  0100000
      sock |-> 49152 + 493 ]    \* S_IFSOCK 0140000

\* mode & bit, for a single-bit mask
BitAnd(mode, bit) == ((mode \div bit) % 2) * bit

\* line 114: args + (0 == (st.st_mode & S_IFDIR))
SpawnArgs(args, mode) ==
    IF 0 = BitAnd(mode, S_IFDIR) THEN SubSeq(args, 2, Len(args)) ELSE args

\* what one call does, st being what stat() finds at the path
\* variant: the debug echo is printed whether or not -d was given
process_event_always_echo(event, st) ==
    LET handler == s_dot_slash \o event
        args    == <<s_run_parts, handler>>
    IN [ handler  |-> handler,
         echo     |-> event,
         statpath |-> event,
         argv     |-> IF st # ENOENT THEN SpawnArgs(args, st_mode_of[st])
                      ELSE << >>,
         warn     |-> IF st # ENOENT THEN NULL ELSE event ]

process_event(event, st) ==
    LET handler == s_dot_slash \o event
        args    == <<s_run_parts, handler>>
    IN [ handler  |-> handler,
         echo     |-> IF opts.d THEN event ELSE NULL,
         statpath |-> event,
         argv     |-> IF st # ENOENT THEN SpawnArgs(args, st_mode_of[st])
                      ELSE << >>,
         warn     |-> IF st # ENOENT THEN NULL ELSE event ]

(***************************************************************************)
(* The state after INIT_G() and getopt32(): both tables empty (xzalloc).   *)
(* Descriptors 0, 1 and 2 are open, except that a process left in the     *)
(* foreground inherits its descriptors and may have been started with     *)
(* descriptor 0 closed.                                                    *)
(***************************************************************************)
NoLast ==
    [ kind |-> "none", index |-> -1, full |-> FALSE, ev |-> NOEVENT,
      line |-> NULL, buf |-> NULL, looked |-> FALSE, desc |-> NULL,
      event |-> NULL,
      called |-> FALSE, st |-> ENOENT, handler |-> NULL, echo |-> NULL,
      statpath |-> NULL, argv |-> << >>, warn |-> NULL ]

Init ==
    /\ opts \in [e : BOOLEAN, d : BOOLEAN]
    /\ pc = "parse_conf"
    /\ cwd = "inherited"
    /\ act_tab = << >> /\ n_act = 0
    /\ evt_tab = << >> /\ n_evt = 0
    /\ pfd = << >> /\ nfd = 0
    /\ i = 0
    /\ fds \in { {0, 1, 2}, {1, 2} }
    /\ tried = << >>
    /\ opened = [conf |-> "unread", map |-> "unread", n_conf |-> 0, n_map |-> 0]
    /\ sigchld = "SIG_DFL"
    /\ pidfile = FALSE
    /\ exitcode = -1
    /\ last = NoLast
    /\ calls = 0
    /\ running = 0
    /\ zombies = 0

tables == <<act_tab, n_act, evt_tab, n_evt>>
sources == <<pfd, nfd, fds, tried>>
\* the position of a process that has ended
Ended == {"die_parse_map", "die_chdir", "die_probe", "killed", "exit"}
loopvars == <<i, last, calls>>
children == <<running, zombies>>

\* bb_*_and_die, xfunc_die: exit(xfunc_error_retval)
EXIT_FAILURE == 1
EXIT_SUCCESS == 0

(***************************************************************************)
(* parse_conf_file, parse_map_file.                                        *)
(***************************************************************************)
ConfRow(tokens) == [key |-> tokens[1], action |-> tokens[2]]

\* variant: an action file that yields no record installs the built-in table
ParseConfFile_defaults_when_empty ==
    /\ pc = "parse_conf"
    /\ \E file \in ActionFiles :
         /\ opened' = [opened EXCEPT !.conf = IF file.opens THEN "yes" ELSE "no",
                                     !.n_conf = Len(file.records)]
         /\ IF file.opens /\ file.records # << >>
            THEN /\ act_tab' = act_tab \o
                       [k \in 1..Len(file.records) |-> ConfRow(file.records[k])]
                 /\ n_act' = n_act + Len(file.records)
            ELSE /\ act_tab' = f_act_tab
                 /\ n_act' = ARRAY_SIZE(f_act_tab)
    /\ pc' = "parse_map"
    /\ UNCHANGED <<opts, cwd, children, evt_tab, n_evt, sources, loopvars, sigchld, pidfile,
                   exitcode>>

ParseConfFile ==
    /\ pc = "parse_conf"
    /\ \E file \in ActionFiles :
         /\ opened' = [opened EXCEPT !.conf = IF file.opens THEN "yes" ELSE "no",
                                     !.n_conf = Len(file.records)]
         /\ IF file.opens
            THEN /\ act_tab' = act_tab \o
                       [k \in 1..Len(file.records) |-> ConfRow(file.records[k])]
                 /\ n_act' = n_act + Len(file.records)
            ELSE /\ act_tab' = f_act_tab
                 /\ n_act' = ARRAY_SIZE(f_act_tab)
    /\ pc' = "parse_map"
    /\ UNCHANGED <<opts, cwd, children, evt_tab, n_evt, sources, loopvars, sigchld, pidfile,
                   exitcode>>

\* lines 187-192
MapRow(tokens) ==
    [ s_type |-> tokens[1],
      n_type |-> U16(xstrtou(tokens[2], 16)),
      s_code |-> tokens[3],
      n_code |-> xatou16(tokens[4]),
      value  |-> xatoi_positive(tokens[5]),
      desc   |-> tokens[6] ]

\* one of the conversions of lines 188-191 dies
MapRowDies(tokens) ==
    \/ xstrtou(tokens[2], 16) = BAD
    \/ xatou16(tokens[4]) = BAD
    \/ xatoi_positive(tokens[5]) = BAD

ParseMapFile ==
    /\ pc = "parse_map"
    /\ \E file \in MapFiles :
         /\ opened' = [opened EXCEPT !.map = IF file.opens THEN "yes" ELSE "no",
                                     !.n_map = Len(file.records)]
         /\ IF file.opens
            THEN LET bad == {k \in 1..Len(file.records) :
                               MapRowDies(file.records[k])}
                     n   == IF bad = {} THEN Len(file.records) ELSE Min(bad) - 1
                 IN /\ evt_tab' = evt_tab \o
                          [k \in 1..n |-> MapRow(file.records[k])]
                    /\ n_evt' = n_evt + n
                    /\ IF bad = {}
                       THEN pc' = "chdir" /\ exitcode' = exitcode
                       ELSE pc' = "die_parse_map" /\ exitcode' = EXIT_FAILURE
            ELSE /\ evt_tab' = f_evt_tab
                 /\ n_evt' = ARRAY_SIZE(f_evt_tab)
                 /\ pc' = "chdir" /\ exitcode' = exitcode
    /\ UNCHANGED <<opts, cwd, children, act_tab, n_act, sources, loopvars, sigchld, pidfile>>

(***************************************************************************)
(* xchdir(opt_dir), then the two bb_signals calls.                         *)
(***************************************************************************)
\* variant: the pid marker is written before the directory is entered
Chdir_after_pidfile ==
    /\ pc = "chdir"
    /\ \E ok \in BOOLEAN :
         IF ok THEN pc' = "signals" /\ exitcode' = exitcode
                    /\ cwd' = "opt_dir"
               ELSE pc' = "die_chdir" /\ exitcode' = EXIT_FAILURE
                    /\ cwd' = cwd
    /\ pidfile' = TRUE
    /\ UNCHANGED <<opts, children, opened, tables, sources, loopvars, sigchld>>

Chdir ==
    /\ pc = "chdir"
    /\ \E ok \in BOOLEAN :
         IF ok THEN pc' = "signals" /\ exitcode' = exitcode
                    /\ cwd' = "opt_dir"
               ELSE pc' = "die_chdir" /\ exitcode' = EXIT_FAILURE
                    /\ cwd' = cwd
    /\ UNCHANGED <<opts, children, opened, tables, sources, loopvars, sigchld, pidfile>>

\* variant: SIGCHLD keeps its default disposition
Signals_default_sigchld ==
    /\ pc = "signals"
    /\ sigchld' = sigchld
    /\ pc' = "probe"
    /\ UNCHANGED <<opts, cwd, children, opened, tables, sources, loopvars, pidfile, exitcode>>

Signals ==
    /\ pc = "signals"
    /\ sigchld' = "SIG_IGN"
    /\ pc' = "probe"
    /\ UNCHANGED <<opts, cwd, children, opened, tables, sources, loopvars, pidfile, exitcode>>

(***************************************************************************)
(* The loop that opens the event sources, one iteration a step.            *)
(***************************************************************************)
\* the path of line 256 were the index one too high
DevEvent_off_by_one(n) ==
    IF opts.e THEN [name |-> "opt_input", index |-> -1]
              ELSE [name |-> "opt_input", index |-> n + 1]

\* line 256: opt_input itself with -e, else opt_input followed by the index
DevEvent(n) ==
    IF opts.e THEN [name |-> "opt_input", index |-> -1]
              ELSE [name |-> "opt_input", index |-> n]

\* open() returns the lowest descriptor not in use
LowestFree == Min({n \in 0..(Cardinality(fds)) : n \notin fds})

ProbeOpen ==
    /\ pc = "probe"
    /\ \E ok \in BOOLEAN :
         /\ nfd >= MaxFd => ~ok
         /\ tried' = Append(tried, [path |-> DevEvent(nfd), ok |-> ok,
                                    fd |-> IF ok THEN LowestFree ELSE -1])
         /\ IF ok
            THEN /\ pfd' = Append(pfd, [fd |-> LowestFree, events |-> "POLLIN",
                                        revents |-> {}])
                 /\ fds' = fds \cup {LowestFree}
                 /\ nfd' = nfd + 1
                 /\ pc' = "probe" /\ exitcode' = exitcode
            ELSE /\ UNCHANGED <<pfd, fds, nfd>>
                 /\ IF nfd = 0
                    THEN pc' = "die_probe" /\ exitcode' = EXIT_FAILURE
                    ELSE pc' = "write_pidfile" /\ exitcode' = exitcode
    /\ UNCHANGED <<opts, cwd, children, opened, tables, loopvars, sigchld, pidfile>>

WritePidfile ==
    /\ pc = "write_pidfile"
    /\ pidfile' = TRUE
    /\ pc' = "poll"
    /\ UNCHANGED <<opts, cwd, children, opened, tables, sources, loopvars, sigchld, exitcode>>

(***************************************************************************)
(* The poll loop.  poll() has no timeout: it returns > 0 with revents set, *)
(* or fails (an error, or EINTR when a recorded signal arrives).           *)
(***************************************************************************)
\* revents of a descriptor: POLLIN is the one flag the loop looks at
Revents == { {}, {"POLLIN"} }

\* variant: descriptors that are not readable are dropped from the set
PollReady_drops_idle ==
    /\ pc = "poll"
    /\ \E rv \in [1..nfd -> Revents] :
         /\ \E k \in 1..nfd : rv[k] # {}
         /\ pfd' = SelectSeq([k \in 1..nfd |-> [pfd[k] EXCEPT !.revents = rv[k]]],
                             LAMBDA e : e.revents # {})
    /\ nfd' = Len(pfd')
    /\ i' = 0
    /\ calls' = 0
    /\ pc' = "for"
    /\ UNCHANGED <<opts, cwd, children, opened, tables, fds, tried, last, sigchld, pidfile,
                   exitcode>>

PollReady ==
    /\ pc = "poll"
    /\ \E rv \in [1..nfd -> Revents] :
         /\ \E k \in 1..nfd : rv[k] # {}
         /\ pfd' = [k \in 1..nfd |-> [pfd[k] EXCEPT !.revents = rv[k]]]
    /\ i' = 0
    /\ calls' = 0
    /\ pc' = "for"
    /\ UNCHANGED <<opts, cwd, children, opened, tables, nfd, fds, tried, last, sigchld, pidfile,
                   exitcode>>

PollFails ==
    /\ pc = "poll"
    /\ pc' = "cleanup"
    /\ UNCHANGED <<opts, cwd, children, opened, tables, sources, loopvars, sigchld, pidfile, exitcode>>

\* lines 287-289, were the guard of line 288 missing
Strip_unguarded(buf) == SubSeq(buf, 1, strlen(buf) - 9)

\* lines 287-289: len = strlen(buf) - 9; if (len >= 0) buf[len] = '\0'
Strip(buf) ==
    LET len == strlen(buf) - 9
    IN IF len >= 0 THEN SubSeq(buf, 1, len) ELSE buf

\* line 295, were it to let every value but a negative one through
ValueFiltered_negative_only(ev) == ev.value < 0

\* line 295: the value is neither 1 nor 0
ValueFiltered(ev) == ev.value # 1 /\ ev.value # 0

\* What one iteration of the for loop does with a readable descriptor:
\* looked says whether find_action was called, desc and event are what its
\* first loop and the whole of it returned, st is what stat() finds.
Outcome(kind, full, ev, line, buf, looked, desc, event, st) ==
    LET pe == process_event(event, st)
    IN [ kind |-> kind, index |-> i, full |-> full, ev |-> ev, line |-> line,
         buf |-> buf, looked |-> looked,
         desc |-> desc,
         event |-> event,
         called |-> event # NULL,
         st |-> st,
         handler  |-> IF event # NULL THEN pe.handler ELSE NULL,
         echo     |-> IF event # NULL THEN pe.echo ELSE NULL,
         statpath |-> IF event # NULL THEN pe.statpath ELSE NULL,
         argv     |-> IF event # NULL THEN pe.argv ELSE << >>,
         warn     |-> IF event # NULL THEN pe.warn ELSE NULL ]

\* what stat() may find in an iteration: anything when process_event is
\* called (a file only while fewer than MaxChildren handlers are running);
\* stat() is not called otherwise
StatResults(found) ==
    IF ~found THEN {ENOENT}
    ELSE IF running < MaxChildren THEN FileTypes \cup {ENOENT}
    ELSE {ENOENT}

\* line 114: spawn(argv) starts a handler and returns without waiting for it
Spawn(argv) ==
    /\ running' = IF argv # << >> THEN running + 1 ELSE running
    /\ zombies' = zombies

\* the end of an iteration: i++, and back to poll() after the last one
NextIteration ==
    /\ i' = i + 1
    /\ pc' = IF i + 1 < nfd THEN "for" ELSE "poll"

\* line 278: the descriptor is not flagged readable
ForSkip ==
    /\ pc = "for"
    /\ "POLLIN" \notin pfd[i + 1].revents
    /\ last' = [NoLast EXCEPT !.kind = "skip", !.index = i]
    /\ NextIteration
    /\ UNCHANGED <<opts, cwd, children, opened, tables, sources, calls, sigchld, pidfile, exitcode>>

\* lines 292-303: a binary source is readable
ForBinary ==
    /\ pc = "for"
    /\ "POLLIN" \in pfd[i + 1].revents
    /\ ~opts.e
    /\ \E ev \in Events \cup {NOEVENT} :
         LET full   == ev # NOEVENT
             looked == full /\ ~ValueFiltered(ev)
         IN \E desc \in {IF looked THEN MapEvent(ev, NULL) ELSE NULL},
               event \in {IF looked THEN find_action(ev, NULL) ELSE NULL} :
              \E st \in StatResults(event # NULL) :
                 last' = Outcome("bin", full, ev, NULL, NULL, looked, desc,
                                 event, st)
    /\ calls' = IF last'.called THEN calls + 1 ELSE calls
    /\ Spawn(last'.argv)
    /\ NextIteration
    /\ UNCHANGED <<opts, cwd, opened, tables, sources, sigchld, pidfile, exitcode>>

\* lines 285-290 and 300-303: the textual source is readable and
\* xmalloc_reads returns a line
ForText ==
    /\ pc = "for"
    /\ "POLLIN" \in pfd[i + 1].revents
    /\ opts.e
    /\ \E line \in Lines :
         \E buf \in {Strip(line)} :
           \E desc \in {MapEvent(NOEVENT, buf)},
              event \in {find_action(NOEVENT, buf)} :
             \E st \in StatResults(event # NULL) :
                last' = Outcome("text", TRUE, NOEVENT, line, buf, TRUE, desc,
                                event, st)
    /\ calls' = IF last'.called THEN calls + 1 ELSE calls
    /\ Spawn(last'.argv)
    /\ NextIteration
    /\ UNCHANGED <<opts, cwd, opened, tables, sources, sigchld, pidfile, exitcode>>

\* exit status of a process killed by SIGSEGV, as a shell reports it
SEGV_STATUS == 139

\* lines 285-290: xmalloc_reads returns NULL (end of file, or a failed read
\* with nothing read) and line 287 hands it to strlen: undefined behaviour.
\* Either the process is killed, or strlen yields some length below 9,
\* nothing is written and find_action(NULL, NULL) finds nothing.
ForTextNull ==
    /\ pc = "for"
    /\ "POLLIN" \in pfd[i + 1].revents
    /\ opts.e
    /\ \E killed \in BOOLEAN :
         IF killed
         THEN /\ last' = [NoLast EXCEPT !.kind = "text", !.index = i]
              /\ pc' = "killed" /\ exitcode' = SEGV_STATUS
              /\ i' = i
         ELSE /\ last' = Outcome("text", FALSE, NOEVENT, NULL, NULL, TRUE,
                                 MapEvent(NOEVENT, NULL),
                                 find_action(NOEVENT, NULL), ENOENT)
              /\ NextIteration
              /\ exitcode' = exitcode
    /\ UNCHANGED <<opts, cwd, children, opened, tables, sources, calls, sigchld, pidfile>>

(***************************************************************************)
(* Lines 307-317.  ENABLE_FEATURE_CLEAN_UP is a choice of the build.  At   *)
(* pc = "exit", fds holds the descriptors left for the kernel to close.    *)
(***************************************************************************)
\* variant: the pid marker is left behind
Shutdown_keeps_pidfile ==
    /\ pc = "cleanup"
    /\ \E clean_up \in BOOLEAN :
         IF clean_up
         THEN /\ fds' = fds \ {pfd[k].fd : k \in {j \in 1..nfd : pfd[j].fd # 0}}
              /\ nfd' = -1
              /\ pfd' = << >>
         ELSE UNCHANGED <<fds, nfd, pfd>>
    /\ pidfile' = pidfile
    /\ exitcode' = EXIT_SUCCESS
    /\ pc' = "exit"
    /\ UNCHANGED <<opts, cwd, children, opened, tables, tried, loopvars, sigchld>>

Shutdown ==
    /\ pc = "cleanup"
    /\ \E clean_up \in BOOLEAN :
         IF clean_up
         THEN /\ fds' = fds \ {pfd[k].fd : k \in {j \in 1..nfd : pfd[j].fd # 0}}
              /\ nfd' = -1
              /\ pfd' = << >>
         ELSE UNCHANGED <<fds, nfd, pfd>>
    /\ pidfile' = FALSE
    /\ exitcode' = EXIT_SUCCESS
    /\ pc' = "exit"
    /\ UNCHANGED <<opts, cwd, children, opened, tables, tried, loopvars, sigchld>>

\* A handler terminates.  With SIGCHLD ignored (line 247) the kernel reaps
\* it at once; so does init when acpid itself has ended; otherwise it stays
\* a zombie until its parent waits for it, which acpid never does.
ChildExit ==
    /\ running > 0
    /\ running' = running - 1
    /\ zombies' = IF sigchld = "SIG_IGN" \/ pc \in Ended THEN zombies
                  ELSE zombies + 1
    /\ UNCHANGED <<opts, cwd, opened, pc, tables, sources, loopvars, sigchld,
                   pidfile, exitcode>>

Next ==
    \/ ParseConfFile
    \/ ParseMapFile
    \/ Chdir
    \/ Signals
    \/ ProbeOpen
    \/ WritePidfile
    \/ PollReady
    \/ PollFails
    \/ ForSkip
    \/ ForBinary
    \/ ForText
    \/ ForTextNull
    \/ Shutdown
    \/ ChildExit

Spec == Init /\ [][Next]_vars

(***************************************************************************)
(* Properties.  They are stated over the tables and over `last`, with      *)
(* their own reading of "matches", "begins with" and "occurs in".          *)
(***************************************************************************)
TripleEq(ev, row) ==
    ev.type = row.n_type /\ ev.code = row.n_code /\ ev.value = row.value

IsPrefix(p, d) ==
    Len(p) <= Len(d) /\ \A k \in 1..Len(p) : d[k] = p[k]

Occurs(key, d) ==
    \E lo \in 1..(Len(d) + 1) :
        \A k \in 1..Len(key) : lo + k - 1 <= Len(d) /\ d[lo + k - 1] = key[k]

\* the rows that match the input of the latest iteration (stage 1)
Stage1Hits ==
    {k \in 1..n_evt :
        IF last.kind = "bin" THEN TripleEq(last.ev, evt_tab[k])
        ELSE last.buf # NULL /\ IsPrefix(last.buf, evt_tab[k].desc)}

\* the rows whose key occurs in the stage-1 description (stage 2)
Stage2Hits == {k \in 1..n_act : Occurs(act_tab[k].key, last.desc)}

Spawned == last.argv # << >>

\* C1: in binary mode a fully-read event whose triple equals no row's
\* triple never reaches process_event, whatever was handled before it.
C1_UnmatchedTripleNeverDispatched ==
    (last.kind = "bin" /\ last.full
        /\ ~\E k \in 1..n_evt : TripleEq(last.ev, evt_tab[k]))
    => ~last.called /\ ~Spawned

\* an unmatched triple with value 1 is dropped on the second descriptor
\* right after an event was dispatched from the first one
C1_Witness ==
    /\ last.kind = "bin" /\ last.full /\ last.ev.value = 1
    /\ n_evt > 0
    /\ ~\E k \in 1..n_evt : TripleEq(last.ev, evt_tab[k])
    /\ last.index = 1 /\ calls = 1
    /\ ~last.called

\* C2: when two or more rows of the event table match the input, the
\* stage-1 description is that of the matching row of smallest index; when
\* two or more keys of the action table occur in the stage-1 description,
\* the final action is that of the row of smallest index among them.
C2_FirstMatchInOrder ==
    /\ (last.looked /\ Cardinality(Stage1Hits) >= 2)
          => last.desc = evt_tab[Min(Stage1Hits)].desc
    /\ (last.desc # NULL /\ Cardinality(Stage2Hits) >= 2)
          => last.event = act_tab[Min(Stage2Hits)].action

\* two rows with different descriptions match, and two keys with different
\* actions occur in the description
C2_Witness ==
    /\ last.looked /\ last.called
    /\ \E j, k \in Stage1Hits : j < k /\ evt_tab[j].desc # evt_tab[k].desc
    /\ \E j, k \in Stage2Hits : j < k /\ act_tab[j].action # act_tab[k].action

\* C3: if some key of the action table occurs in the stage-1 description,
\* the final action is the action of the first such row; if none occurs, it
\* is the description itself; in both cases process_event is called.
C3_ActionSubstitution ==
    last.desc # NULL =>
        /\ last.event = IF Stage2Hits # {}
                        THEN act_tab[Min(Stage2Hits)].action
                        ELSE last.desc
        /\ last.called

\* pass-through with a non-empty action table, the handler spawned
C3_Witness ==
    /\ last.desc # NULL /\ n_act > 0 /\ Stage2Hits = {}
    /\ last.event = last.desc /\ last.called /\ Spawned

\* C4: process_event runs run-parts on the path iff stat finds a directory,
\* runs the path itself iff stat finds a file of any other type, and spawns
\* nothing iff stat fails.
C4_DirectoryIffRunParts ==
    last.called =>
        /\ last.argv = <<s_run_parts, last.handler>> <=> last.st = "dir"
        /\ last.argv = <<last.handler>> <=> last.st \notin {"dir", ENOENT}
        /\ last.argv = << >> <=> last.st = ENOENT

\* C5: when the action file cannot be opened the action table is the two
\* default rows in order; when the map file cannot be opened the event table
\* is the two default rows in order; neither makes the startup fail.
C5_ConfigFallback ==
    /\ opened.conf = "no" =>
          /\ n_act = 2
          /\ act_tab = << [key |-> s_PWRF, action |-> s_PWRF_00000080],
                          [key |-> s_LID0, action |-> s_LID_00000080] >>
    /\ opened.map = "no" =>
          /\ n_evt = 2
          /\ evt_tab =
               << [s_type |-> "EV_KEY", n_type |-> 1, s_code |-> "KEY_POWER",
                   n_code |-> 116, value |-> 1, desc |-> s_button_power_PWRF],
                  [s_type |-> "EV_KEY", n_type |-> 1, s_code |-> "KEY_POWER",
                   n_code |-> 116, value |-> 1, desc |-> s_button_power_PWRB] >>
          /\ pc # "die_parse_map"
    /\ (opened.conf = "no" /\ opened.map = "unread") => pc = "parse_map"

\* the action file is missing, the map file is not, and the loop is reached
C5_Witness ==
    /\ opened.conf = "no" /\ opened.map = "yes"
    /\ n_act = 2 /\ n_evt > 2
    /\ pc = "poll"

\* C6: in binary mode an event whose value is neither 0 nor 1 never reaches
\* find_action and is never dispatched.
C6_ValueFilter ==
    (last.kind = "bin" /\ last.full /\ last.ev.value \notin {0, 1})
    => ~last.looked /\ ~last.called /\ ~Spawned

\* the table, loaded from a map file, has a row with the event's triple
C6_Witness ==
    /\ last.kind = "bin" /\ last.full /\ last.ev.value = 2
    /\ opened.map = "yes"
    /\ \E k \in 1..n_evt : TripleEq(last.ev, evt_tab[k])
    /\ ~last.looked /\ ~last.called

\* C7: with both default tables in binary mode, (1, 116, 1) resolves through
\* the first map row to "PWRF/00000080", process_event builds the handler
\* "./PWRF/00000080", and no other action is ever dispatched.
C7_DefaultPowerButton ==
    (opened.conf = "no" /\ opened.map = "no" /\ last.kind = "bin") =>
        /\ (last.full /\ last.ev = [type |-> 1, code |-> 116, value |-> 1]) =>
              /\ last.desc = s_button_power_PWRF
              /\ last.event = s_PWRF_00000080
              /\ last.called
              /\ last.handler = s_dot_slash \o s_PWRF_00000080
        /\ last.called =>
              /\ last.desc = s_button_power_PWRF
              /\ last.event = s_PWRF_00000080
        /\ Spawned => last.argv[Len(last.argv)] = s_dot_slash \o s_PWRF_00000080

C7_Witness ==
    /\ opened.conf = "no" /\ opened.map = "no" /\ last.kind = "bin"
    /\ last.ev = [type |-> 1, code |-> 116, value |-> 1]
    /\ last.called /\ last.st = "reg"
    /\ last.argv = <<s_dot_slash \o s_PWRF_00000080>>

\* the loop that opens the sources has ended and the poll loop has not
Probed == pc \in {"write_pidfile", "poll", "for", "cleanup"}

\* C8: with -e, when the open succeeds the descriptor list has exactly one
\* entry once the sources are open, and when it fails the process dies.
C8_TextualOpensExactlyOne ==
    opts.e =>
        /\ Probed => nfd = 1 /\ Len(pfd) = 1
        /\ (tried # << >> /\ ~tried[1].ok) => pc = "die_probe"

\* C9: without -e the paths tried are prefix+0, prefix+1, ... in ascending
\* order, none after the first failure; when the first failure is at
\* N >= 1 the descriptor list is the descriptors of indices 0..N-1 in order;
\* when it is at 0 the process dies with a non-zero status.
C9_BinaryProbing ==
    ~opts.e =>
        /\ \A k \in 1..Len(tried) : tried[k].path.index = k - 1
        /\ \A k \in 1..(Len(tried) - 1) : tried[k].ok
        /\ Probed =>
              /\ ~tried[Len(tried)].ok
              /\ nfd = Len(tried) - 1 /\ nfd >= 1 /\ Len(pfd) = nfd
              /\ \A k \in 1..nfd : pfd[k].fd = tried[k].fd
        /\ (tried # << >> /\ ~tried[1].ok) =>
              /\ pc = "die_probe" /\ exitcode # 0 /\ exitcode # -1
              /\ ~pidfile /\ last = NoLast

\* two sources were opened, the third open failed, the loop is entered
C9_Witness ==
    /\ ~opts.e /\ pc = "poll"
    /\ Len(tried) = 3 /\ ~tried[3].ok
    /\ nfd = 2

\* C10 as claimed: the string handed to stage 1 is the line with its last 9
\* characters removed, whatever the length of the line.
C10_AlwaysLast9Removed ==
    (last.kind = "text" /\ last.full) =>
        /\ last.looked
        /\ last.buf = SubSeq(last.line, 1, Len(last.line) - 9)

\* C10 as amended: a line of 9 characters or more is handed to stage 1
\* with its last 9 characters removed; a shorter line is handed unchanged.
C10_StripOnlyLongLines ==
    (last.kind = "text" /\ last.full) =>
        /\ last.looked
        /\ IF Len(last.line) >= 9
           THEN /\ Len(last.buf) = Len(last.line) - 9
                /\ IsPrefix(last.buf, last.line)
           ELSE last.buf = last.line

\* a line of 6 characters is matched whole against the table and dispatched
C10_Witness ==
    /\ last.kind = "text" /\ last.full
    /\ Len(last.line) > 0 /\ Len(last.line) < 9
    /\ last.buf = last.line
    /\ last.called

\* C11: in textual mode stage 1 yields the description of the first event
\* row whose description begins with the stripped buffer, and the event is
\* dropped when no row does; with the default tables the line
\* "button/power PWRB 00000080 00000000" strips to
\* "button/power PWRB 00000080", matches the second default row, matches no
\* action key, and is dispatched with the description as the final action.
C11_TextualStage1 ==
    (last.kind = "text" /\ last.full) =>
        /\ Stage1Hits = {} =>
              last.desc = NULL /\ last.event = NULL /\ ~last.called
        /\ Stage1Hits # {} => last.desc = evt_tab[Min(Stage1Hits)].desc
        /\ (opened.conf = "no" /\ opened.map = "no"
              /\ last.line = s_button_power_PWRB \o s_seq) =>
              /\ last.buf = s_button_power_PWRB
              /\ Stage1Hits = {2}
              /\ last.desc = s_button_power_PWRB
              /\ Stage2Hits = {}
              /\ last.event = last.desc
              /\ last.called
              /\ last.handler = s_dot_slash \o s_button_power_PWRB

\* the PWRB line is dispatched unchanged under the default tables
C11_Witness ==
    /\ last.kind = "text" /\ last.full
    /\ opened.conf = "no" /\ opened.map = "no"
    /\ last.line = s_button_power_PWRB \o s_seq
    /\ last.called /\ last.event = s_button_power_PWRB
    /\ Spawned

\* the descriptors of the sources that were opened
SourceFds == {tried[k].fd : k \in {j \in 1..Len(tried) : tried[j].ok}}

\* C12 as claimed: when the poll loop has ended and the process exits, every
\* descriptor of the source list is closed, the pid marker is removed and
\* the exit status is 0.
C12_ExitClosesEverySource ==
    pc = "exit" =>
        /\ SourceFds \cap fds = {}
        /\ ~pidfile
        /\ exitcode = 0

\* C12: when the poll loop has ended and the process exits, the pid marker
\* is removed and the exit status is 0; the source descriptors are either
\* all still open (a build without clean-up) or all closed except a source
\* descriptor numbered 0 (a build with clean-up).
C12_ExitRemovesPidfile ==
    pc = "exit" =>
        /\ ~pidfile
        /\ exitcode = 0
        /\ \/ SourceFds \subseteq fds
           \/ SourceFds \cap fds = SourceFds \cap {0}

\* a clean-up build closed one source and left the source on descriptor 0
C12_Witness ==
    /\ pc = "exit" /\ ~pidfile /\ exitcode = 0
    /\ Cardinality(SourceFds) = 2
    /\ SourceFds \cap fds = {0}

\* a step that spawns a handler is a step of the for loop that moves on to
\* the next descriptor or to the next wait
SpawnStep ==
    running' > running =>
        /\ pc = "for" /\ pc' \in {"for", "poll"}
        /\ sigchld = "SIG_IGN"
        /\ i' = i + 1

\* C13: a handler is spawned only from the loop, the loop goes on to its
\* next descriptor or its next wait in the same step without waiting for the
\* handler, SIGCHLD is ignored from before the first spawn on, and no
\* terminated handler is ever left unreaped.
C13_FireAndForget ==
    /\ [](zombies = 0 /\ (running > 0 => sigchld = "SIG_IGN"))
    /\ [][SpawnStep]_vars

\* a handler is spawned while an earlier one is still running
C13_Witness ==
    /\ pc \in {"for", "poll"}
    /\ running = 2 /\ zombies = 0
    /\ last.called /\ Spawned

\* C14 as claimed: after a short, failed or empty read, an event that
\* matches nothing, a filtered value or a missing handler path, in either
\* mode, the loop is still running; it is left only through a failing wait.
C14_LoopSurvivesEveryRead ==
    /\ last.kind \in {"bin", "text", "skip"} =>
          pc \in {"for", "poll", "cleanup", "exit"}
    /\ pc # "killed"

\* the readable descriptors the for loop has not visited
Unvisited ==
    {k \in 1..Len(pfd) :
        /\ k > (IF pc = "killed" THEN i + 1 ELSE i)
        /\ "POLLIN" \in pfd[k].revents}

\* the last descriptor handled belongs to the current wakeup
JustVisited ==
    /\ pc \in {"for", "poll", "cleanup", "killed"}
    /\ last.index = (IF pc = "killed" THEN i ELSE i - 1)

\* C15 as claimed: on each wakeup every readable descriptor is visited once
\* in ascending order, one event is read from it and process_event is called
\* once if the event resolves to an action and not otherwise; a descriptor
\* that is not readable causes no read and no call.
C15_OncePerQualifyingEvent ==
    /\ last.kind \in {"bin", "text"} =>
          /\ last.called <=> last.event # NULL
          /\ JustVisited => "POLLIN" \in pfd[last.index + 1].revents
    /\ last.kind = "skip" =>
          /\ ~last.called
          /\ JustVisited => "POLLIN" \notin pfd[last.index + 1].revents
    /\ calls <= i
    /\ (pc # "for" /\ last.kind # "none") => Unvisited = {}

\* the leading "./" and "/" of a path removed
RECURSIVE Relative(_)
Relative(path) ==
    IF Len(path) >= 2 /\ path[1] = "." /\ path[2] = "/"
    THEN Relative(SubSeq(path, 3, Len(path)))
    ELSE IF Len(path) >= 1 /\ path[1] = "/"
    THEN Relative(SubSeq(path, 2, Len(path)))
    ELSE path

\* the file a path names: looked up from the root when it starts with "/",
\* from the working directory otherwise
Resolve(path) ==
    [ from |-> IF Len(path) >= 1 /\ path[1] = "/" THEN "/" ELSE cwd,
      rel  |-> Relative(path) ]

\* C16 as claimed: for every resolved action, one that starts with "/"
\* included, the file whose type is queried is "./" + action under the
\* working directory, and it is the file handed to run-parts or executed.
C16_QueriedPathIsHandler ==
    last.called =>
        /\ Resolve(last.statpath) = Resolve(s_dot_slash \o last.event)
        /\ Spawned =>
              Resolve(last.argv[Len(last.argv)]) = Resolve(last.statpath)

\* a step taken in the poll loop keeps the tables and the sources
LoopStep ==
    pc \in {"poll", "for"} =>
        /\ evt_tab' = evt_tab /\ n_evt' = n_evt
        /\ act_tab' = act_tab /\ n_act' = n_act
        /\ nfd' = nfd /\ Len(pfd') = Len(pfd)
        /\ \A k \in 1..Len(pfd) :
              /\ pfd'[k].fd = pfd[k].fd
              /\ pfd'[k].events = pfd[k].events

\* C17: no step taken in the poll loop changes the event table, the action
\* table, their lengths, the length of the descriptor list, or the
\* descriptor and the requested events of any of its entries.
C17_LoopLeavesTablesAndSources == [][LoopStep]_vars

\* back at the wait after a dispatch, with both tables and both sources
C17_Witness ==
    /\ pc = "poll" /\ last.called /\ Spawned
    /\ n_evt = 4 /\ n_act = 2 /\ nfd = 2
    /\ \E k \in 1..nfd : pfd[k].revents = {}

\* C18 as claimed: with -d the echo is the raw input of the event, it is
\* printed only for events whose action is resolved, every echo is followed
\* by a spawned handler and every spawn preceded by an echo, and a dropped
\* event prints nothing.
C18_EchoIsRawInputAndSpawns ==
    opts.d =>
        /\ last.echo # NULL =>
              /\ last.called /\ Spawned
              /\ last.kind = "text" => last.echo = last.line
        /\ Spawned => last.echo # NULL
        /\ ~last.called => last.echo = NULL /\ last.warn = NULL

\* C18: the echo is printed exactly when -d is given and the action is
\* resolved, and it is the resolved action; after it a handler is spawned
\* when the type query succeeds, and otherwise a warning naming the action is
\* issued and nothing is spawned; a dropped event prints nothing.
C18_EchoIsResolvedAction ==
    /\ last.echo # NULL <=> (opts.d /\ last.called)
    /\ last.echo # NULL => last.echo = last.event
    /\ last.called =>
          /\ Spawned <=> last.st # ENOENT
          /\ last.warn # NULL <=> last.st = ENOENT
          /\ last.warn # NULL => last.warn = last.event
    /\ ~last.called => last.echo = NULL /\ last.warn = NULL /\ ~Spawned

\* with -d a textual event is echoed as its action, not as the line read,
\* and no handler is spawned because the type query failed
C18_Witness ==
    /\ opts.d /\ last.kind = "text" /\ last.called
    /\ last.echo = last.event /\ last.echo # last.line
    /\ last.st = ENOENT /\ ~Spawned /\ last.warn = last.event

\* C19: a table has the built-in rows only if its file could not be opened;
\* a file that opens gives the table exactly its records, so an opened
\* file without records leaves the table empty; with an empty event table
\* nothing is dispatched, and with an empty action table every stage-1
\* description is the final action.
C19_DefaultsOnlyWhenUnopened ==
    /\ opened.conf = "yes" => n_act = opened.n_conf /\ Len(act_tab) = n_act
    /\ opened.conf = "no" => act_tab = f_act_tab /\ n_act = 2
    /\ (opened.map = "yes" /\ pc # "die_parse_map") =>
          n_evt = opened.n_map /\ Len(evt_tab) = n_evt
    /\ opened.map = "no" => evt_tab = f_evt_tab /\ n_evt = 2
    /\ (opened.map = "yes" /\ opened.n_map = 0) =>
          /\ evt_tab = << >>
          /\ ~last.called /\ last.desc = NULL /\ calls = 0 /\ running = 0
    /\ (opened.conf = "yes" /\ opened.n_conf = 0) =>
          /\ act_tab = << >>
          /\ last.desc # NULL => last.event = last.desc /\ last.called

\* the action file opened without records and a description passed through
C19_Witness ==
    /\ opened.conf = "yes" /\ opened.n_conf = 0 /\ n_act = 0
    /\ last.called /\ last.event = last.desc /\ Spawned

\* C20: the pid marker exists only after both tables are loaded, the
\* working directory entered and a source opened; it exists at every wait;
\* a run that died during startup wrote no pid marker and dispatched nothing.
C20_StartupOrdering ==
    /\ pidfile =>
          /\ opened.conf # "unread" /\ opened.map # "unread"
          /\ cwd = "opt_dir"
          /\ nfd >= 1 /\ SourceFds # {}
          /\ pc \in {"poll", "for", "cleanup", "killed"}
    /\ pc \in {"poll", "for"} => pidfile
    /\ pc \in {"die_parse_map", "die_chdir", "die_probe"} =>
          /\ ~pidfile
          /\ last = NoLast /\ calls = 0 /\ running = 0
          /\ exitcode = EXIT_FAILURE

\* both tables were loaded and the directory entered, but no source opened
C20_Witness ==
    /\ pc = "die_probe" /\ ~pidfile
    /\ opened.map = "yes" /\ cwd = "opt_dir"
    /\ last = NoLast

====
